---- MODULE Spec2Model ----
(***************************************************************************)
(* Model of asana.py: the remote client (class API) and the navigation     *)
(* shell (class Shell) with its command loop.                              *)
(*                                                                         *)
(* Shell state: pwd (the stack of selected entities) and path (the four    *)
(* cache slots: workspaces, projects, tasks, task).  One action per        *)
(* command handler; an action is the whole of one iteration of the loop   *)
(* of Shell.run: input, dispatch, handler, remote calls, re-display.       *)
(* The remote service is the environment: a call either raises or returns *)
(* one of a small set of payloads.                                         *)
(***************************************************************************)
EXTENDS Integers, Sequences, FiniteSets, TLC

VARIABLES
    pc,      \* "main" | "prompt" | "crashed" | "exited": where the process is
    pwd,     \* Shell.pwd: the selected entities, workspace first
    path,    \* Shell.path: slot d in 0..3 is the cache of depth d
    cmd,     \* the input line the last iteration read (NoCmd during startup)
    calls,   \* the remote requests the last iteration issued, in order
    msg,     \* what the handler printed ("" when nothing)
    ret,     \* how the handler ended: "True" | "False" | "raise"
    api      \* the call of an API method on its own (specification SpecTasks)

vars == <<pc, pwd, path, cmd, calls, msg, ret, api>>

(***************************** bounds **************************************)
\* Longest story list a task holds: comment stops appending there.
MaxStories == 2
\* Longest task payload handed to API.tasks on its own.
MaxTasks == 3

(************************** program constants ******************************)
WORKSPACES == 0
PROJECTS == 1
TASKS == 2
TASK == 3
\* Python's None for an id argument; the ids of the service are positive.
None == 0

(*************************** the remote service ****************************)
\* A request: verb, endpoint, the id in its URL and the data sent (<<>> for a
\* GET, <<completed>> for the PUT, <<text>> for the POST).
Request(verb, op, id, data) == [verb |-> verb, op |-> op, id |-> id, data |-> data]
Req(verb, op, id) == Request(verb, op, id, <<>>)

\* What a cache slot was fetched for: the endpoint and the id it was scoped to.
Scope(op, id) == [op |-> op, id |-> id]

\* Payloads of GET workspaces.
Workspace1 == [id |-> 1, name |-> "a"]
Workspace2 == [id |-> 2, name |-> "b"]
WorkspaceResponses == {<<>>, <<Workspace1>>, <<Workspace1, Workspace2>>}

\* Payloads of GET workspaces/<id>/projects?archived=false, oldest first.  One
\* project is called "me", like the aggregate scope.
Project1 == [id |-> 1, name |-> "a", archived |-> FALSE, modified_at |-> 1]
Project2 == [id |-> 2, name |-> "me", archived |-> FALSE, modified_at |-> 2]
ProjectResponses == {<<>>, <<Project1>>, <<Project1, Project2>>}

\* Payloads of GET projects/<id>/tasks and workspaces/<id>/tasks?assignee=me:
\* two tasks with the same display name, the completed one last.
Task1 == [id |-> 1, name |-> "a", completed |-> FALSE, assignee_status |-> "today"]
Task2 == [id |-> 2, name |-> "a", completed |-> TRUE, assignee_status |-> "inbox"]
TaskResponses == {<<>>, <<Task1>>, <<Task1, Task2>>}

\* Text is a sequence of characters.  What the editor may leave in the file:
\* nothing, whitespace only, a word, a word within whitespace.
Texts == {<<>>, <<" ">>, <<"x">>, <<" ", "x", " ">>}

\* Payloads of GET tasks/<id>/stories.
StoryRecs == {[type |-> "system", text |-> <<"x">>]}
StoryResponses == UNION {[1..n -> StoryRecs] : n \in 0..(MaxStories - 1)}

\* Payloads of GET and PUT tasks/<id>: the task record, which has no story list.
\* (assignee, notes, due_on and followers are only displayed and are left out.)
TaskPayload(id, completed) == [id |-> id, completed |-> completed]

(****************************** class API **********************************)
\* list.sort(key=..., reverse=True): descending and stable.  The element at i
\* lands after those with a greater key and those with its key that precede it.
SortDesc(s, Key(_)) ==
    LET n == Len(s)
        rank(i) == 1 + Cardinality({j \in 1..n :
                        \/ Key(s[j]) > Key(s[i])
                        \/ Key(s[j]) = Key(s[i]) /\ j < i})
    IN  [p \in 1..n |-> s[CHOOSE i \in 1..n : rank(i) = p]]

ModifiedAt(p) == p.modified_at
Completed(t) == IF t.completed THEN 1 ELSE 0

\* Projects without reverse=True: oldest first, ties turned around.
Projects_Ascending(raw) ==
    LET d == SortDesc(raw, ModifiedAt)
    IN  [i \in 1..Len(d) |-> d[Len(d) + 1 - i]]

\* API.projects: the payload sorted by modified_at, newest first.
Projects(raw) == SortDesc(raw, ModifiedAt)

\* API.tasks, its request: which GET it issues, or the ValueError it raises.
TasksRequest(project_id, workspace_id) ==
    IF project_id # None
    THEN [raises |-> FALSE, req |-> Req("get", "project_tasks", project_id)]
    ELSE IF workspace_id # None
    THEN [raises |-> FALSE, req |-> Req("get", "my_tasks", workspace_id)]
    ELSE [raises |-> TRUE, req |-> Req("get", "none", None)]

\* by_status[...] of API.tasks: the tasks filed under one key, in payload order.
Bucket(raw, key) ==
    SelectSeq(raw, LAMBDA t : (IF t.completed THEN "completed" ELSE t.assignee_status) = key)

\* Tasks with the buckets joined in the order of the day (today before inbox).
Tasks_TodayFirst(project_id, workspace_id, raw) ==
    IF project_id # None
    THEN SortDesc(raw, Completed)
    ELSE Bucket(raw, "completed") \o Bucket(raw, "today") \o Bucket(raw, "inbox")
            \o Bucket(raw, "upcoming") \o Bucket(raw, "later")

\* Tasks sorting ascending and reversing the list, which turns the ties around
\* (sorted(tasks, key=...)[::-1] instead of reverse=True).
Tasks_SortThenReverse(project_id, workspace_id, raw) ==
    IF project_id # None
    THEN SortDesc([i \in 1..Len(raw) |-> raw[Len(raw) + 1 - i]], Completed)
    ELSE Bucket(raw, "completed") \o Bucket(raw, "inbox") \o Bucket(raw, "today")
            \o Bucket(raw, "upcoming") \o Bucket(raw, "later")

\* API.tasks, its result from the payload.
Tasks(project_id, workspace_id, raw) ==
    IF project_id # None
    THEN SortDesc(raw, Completed)
    ELSE Bucket(raw, "completed") \o Bucket(raw, "inbox") \o Bucket(raw, "today")
            \o Bucket(raw, "upcoming") \o Bucket(raw, "later")

\* API.task without put_data: the task payload with the story payload merged in.
Task(task, stories) ==
    [id |-> task.id, completed |-> task.completed, stories |-> stories]

(***************************** class Shell *********************************)
\* The value of a slot: what it was fetched for, and the data.  The code keeps
\* the data only; the scope is history.  A slot never assigned is None.
Slot(scope, val) == [scope |-> scope, val |-> val]
NoneList == Slot(Scope("none", None), <<>>)
NoneTask == Slot(Scope("none", None), [id |-> None, completed |-> FALSE, stories |-> <<>>])
IsNone(slot) == slot.scope.op = "none"

\* The string 'me' on pwd, in the shape of a project.
ME == [id |-> None, name |-> "me", archived |-> FALSE, modified_at |-> 0]

\* An input line and what the editor does if the line runs it.
Cmd(name, arg, editor) == [name |-> name, arg |-> arg, editor |-> editor]
NoEditor == [ok |-> TRUE, text |-> <<>>]
NoCmd == Cmd("", <<>>, NoEditor)
Args == {"a", "b", "me", ".."}

\* pwd[d] of the code (0-based).
Pwd(d) == pwd[d + 1]

\* A call of API.tasks: its arguments, the payload the service would answer
\* with, the requests issued and how the call ended ("" before the call,
\* then "return", "ValueError" or "Exception" when the request failed).
ApiCall(project_id, workspace_id, raw, issued, outcome, result) ==
    [project_id |-> project_id, workspace_id |-> workspace_id, raw |-> raw,
     calls |-> issued, outcome |-> outcome, result |-> result]
NoApi == ApiCall(None, None, <<>>, <<>>, "", <<>>)

\* Shell.__init__: empty pwd, the workspace listing fetched.
Init ==
    /\ pc = "main"
    /\ pwd = <<>>
    /\ path \in {[d \in 0..3 |->
                    IF d = WORKSPACES THEN Slot(Scope("workspaces", None), w)
                    ELSE IF d = TASK THEN NoneTask ELSE NoneList] :
                  w \in WorkspaceResponses}
    /\ cmd = NoCmd
    /\ calls = <<>>
    /\ msg = ""
    /\ ret = "True"
    /\ api = NoApi

\* IndexOfName with the loop running to its end: the last match wins.
IndexOfName_Last(listing, name) ==
    IF \E i \in 1..Len(listing) : listing[i].name = name
    THEN CHOOSE i \in 1..Len(listing) :
            /\ listing[i].name = name
            /\ \A j \in (i + 1)..Len(listing) : listing[j].name # name
    ELSE 0

\* The first index of listing whose entry has that display name, 0 if none:
\* the for loops of command_cl stop at the first match.
IndexOfName(listing, name) ==
    IF \E i \in 1..Len(listing) : listing[i].name = name
    THEN CHOOSE i \in 1..Len(listing) :
            /\ listing[i].name = name
            /\ \A j \in 1..(i - 1) : listing[j].name # name
    ELSE 0

\* The same by id: the for loops of the deep link.
IndexOfId(listing, id) ==
    IF \E i \in 1..Len(listing) : listing[i].id = id
    THEN CHOOSE i \in 1..Len(listing) :
            /\ listing[i].id = id
            /\ \A j \in 1..(i - 1) : listing[j].id # id
    ELSE 0

\* Shell.display raises where print_col takes max() of no strings: the
\* workspace listing is empty.  (At depth 1 'me' is always listed.)
DisplayRaises(p, pa) == Len(p) = WORKSPACES /\ pa[WORKSPACES].val = <<>>

\* One iteration of the loop of Shell.run, given what the handler did: an
\* exception leaves the loop (only EOFError is caught), a handler that
\* returned True is followed by display().
Step(c, newpwd, newpath, issued, message, outcome) ==
    /\ cmd' = c
    /\ pwd' = newpwd
    /\ path' = newpath
    /\ calls' = issued
    /\ msg' = message
    /\ ret' = outcome
    /\ pc' = IF outcome = "raise" \/ (outcome = "True" /\ DisplayRaises(newpwd, newpath))
             THEN "crashed" ELSE "prompt"
    /\ UNCHANGED api

\* API.task(t['id']) and the assignment of its result to path[TASK], after
\* the requests `issued`: two GETs, either of which may raise.
FetchTask(c, newpwd, pa, issued, id) ==
    LET get == Req("get", "task", id)
        stories == Req("get", "stories", id)
    IN  \/ Step(c, newpwd, pa, issued \o <<get>>, "", "raise")
        \/ Step(c, newpwd, pa, issued \o <<get, stories>>, "", "raise")
        \/ \E completed \in BOOLEAN, s \in StoryResponses :
              Step(c, newpwd,
                   [pa EXCEPT ![TASK] = Slot(Scope("task", id),
                                             Task(TaskPayload(id, completed), s))],
                   issued \o <<get, stories>>, "", "True")

\* API.tasks(...) and the assignment of its result to path[TASKS].
FetchTasks(c, newpwd, pa, issued, project_id, workspace_id, Then(_, _, _)) ==
    LET r == TasksRequest(project_id, workspace_id)
    IN  IF r.raises THEN Step(c, newpwd, pa, issued, "", "raise")
        ELSE \/ Step(c, newpwd, pa, issued \o <<r.req>>, "", "raise")
             \/ \E raw \in TaskResponses :
                   Then(newpwd,
                        [pa EXCEPT ![TASKS] = Slot(Scope(r.req.op, r.req.id),
                                                   Tasks(project_id, workspace_id, raw))],
                        issued \o <<r.req>>)

\* API.projects(id) and the assignment of its result to path[PROJECTS].
FetchProjects(c, newpwd, pa, issued, id, Then(_, _, _)) ==
    LET req == Req("get", "projects", id)
    IN  \/ Step(c, newpwd, pa, issued \o <<req>>, "", "raise")
        \/ \E raw \in ProjectResponses :
              Then(newpwd,
                   [pa EXCEPT ![PROJECTS] = Slot(Scope("projects", id), Projects(raw))],
                   issued \o <<req>>)

(************************** Shell.command_cl *******************************)
\* pwd_len == WORKSPACES: the first workspace of that name is pushed, then its
\* projects are fetched; for/else prints when none has the name.
ClWorkspace(c) ==
    LET ws == path[WORKSPACES].val
        i == IndexOfName(ws, c.arg[1])
    IN  IF i = 0
        THEN Step(c, pwd, path, <<>>, "could not find that workspace", "True")
        ELSE FetchProjects(c, Append(pwd, ws[i]), path, <<>>, ws[i].id,
                           LAMBDA p, pa, is : Step(c, p, pa, is, "", "True"))

\* ClProject with the push after the loop instead of inside it: with no match
\* the last project of the listing is entered.
ClProject_PushAfterLoop(c) ==
    LET ps == path[PROJECTS].val
        i == IF IndexOfName(ps, c.arg[1]) = 0 THEN Len(ps) ELSE IndexOfName(ps, c.arg[1])
    IN  IF c.arg[1] = "me"
        THEN FetchTasks(c, Append(pwd, ME), path, <<>>, None, Pwd(WORKSPACES).id,
                        LAMBDA p, pa, is : Step(c, p, pa, is, "", "True"))
        ELSE IF i = 0
        THEN Step(c, pwd, path, <<>>, "", "True")
        ELSE FetchTasks(c, Append(pwd, ps[i]), path, <<>>, ps[i].id, None,
                        LAMBDA p, pa, is : Step(c, p, pa, is, "", "True"))

\* pwd_len == PROJECTS: 'me' pushes the string and fetches by workspace; any
\* other name pushes the first project of that name and fetches by project.
\* The for loop has no else: no match prints nothing.
ClProject(c) ==
    LET ps == path[PROJECTS].val
        i == IndexOfName(ps, c.arg[1])
    IN  IF c.arg[1] = "me"
        THEN FetchTasks(c, Append(pwd, ME), path, <<>>, None, Pwd(WORKSPACES).id,
                        LAMBDA p, pa, is : Step(c, p, pa, is, "", "True"))
        ELSE IF i = 0
        THEN Step(c, pwd, path, <<>>, "", "True")
        ELSE FetchTasks(c, Append(pwd, ps[i]), path, <<>>, ps[i].id, None,
                        LAMBDA p, pa, is : Step(c, p, pa, is, "", "True"))

\* pwd_len == TASKS: the first task of that name is pushed, then its detail
\* is fetched; for/else prints when none has the name.
ClTask(c) ==
    LET ts == path[TASKS].val
        i == IndexOfName(ts, c.arg[1])
    IN  IF i = 0
        THEN Step(c, pwd, path, <<>>, "could not find that task", "True")
        ELSE FetchTask(c, Append(pwd, ts[i]), path, <<>>, ts[i].id)

\* ClParent emptying pwd (del self.pwd[:]) instead of popping one entry.
ClParent_ToRoot(c) ==
    IF pwd = <<>>
    THEN Step(c, pwd, path, <<>>, "", "raise")
    ELSE Step(c, <<>>, path, <<>>, "", "True")

\* split[1] == '..': list.pop(), which raises IndexError on an empty pwd.
ClParent(c) ==
    IF pwd = <<>>
    THEN Step(c, pwd, path, <<>>, "", "raise")
    ELSE Step(c, SubSeq(pwd, 1, Len(pwd) - 1), path, <<>>, "", "True")

\* ClTerminal refreshing the task it stays on.
ClTerminal_Refetch(c) == FetchTask(c, pwd, path, <<>>, path[TASK].val.id)

\* pwd_len == TASK: nothing below a task.
ClTerminal(c) == Step(c, pwd, path, <<>>, "", "False")

\* Shell.command_cl on the split line c.
Cl(c) ==
    LET pwd_len == Len(pwd)
    IN  IF c.arg = <<>>
        THEN Step(c, pwd, path, <<>>, "you must specify a \"directory\" to move to", "False")
        ELSE IF c.arg[1] = ".." THEN ClParent(c)
        ELSE IF pwd_len = WORKSPACES THEN ClWorkspace(c)
        ELSE IF pwd_len = PROJECTS THEN ClProject(c)
        ELSE IF pwd_len = TASKS THEN ClTask(c)
        ELSE ClTerminal(c)

CommandCl ==
    /\ pc = "prompt"
    /\ \E arg \in {<<>>} \cup {<<a>> : a \in Args} : Cl(Cmd("cl", arg, NoEditor))

(************************** Shell.command_ls *******************************)
\* Ls without the test for 'me': the tasks are always asked of the project.
Ls_ByProjectOnly(c) ==
    LET pwd_len == Len(pwd)
        done(p, pa, is) == Step(c, p, pa, is, "", "True")
    IN  IF pwd_len = WORKSPACES
        THEN LET req == Req("get", "workspaces", None)
             IN  \/ Step(c, pwd, path, <<req>>, "", "raise")
                 \/ \E raw \in WorkspaceResponses :
                       Step(c, pwd,
                            [path EXCEPT ![WORKSPACES] = Slot(Scope("workspaces", None), raw)],
                            <<req>>, "", "True")
        ELSE IF pwd_len = PROJECTS
        THEN FetchProjects(c, pwd, path, <<>>, Pwd(WORKSPACES).id, done)
        ELSE IF pwd_len = TASKS
        THEN FetchTasks(c, pwd, path, <<>>, Pwd(PROJECTS).id, None, done)
        ELSE FetchTask(c, pwd, path, <<>>, path[TASK].val.id)

\* The listing or detail of the current depth is fetched again, scoped by
\* pwd, and put in the slot of that depth.
Ls(c) ==
    LET pwd_len == Len(pwd)
        done(p, pa, is) == Step(c, p, pa, is, "", "True")
    IN  IF pwd_len = WORKSPACES
        THEN LET req == Req("get", "workspaces", None)
             IN  \/ Step(c, pwd, path, <<req>>, "", "raise")
                 \/ \E raw \in WorkspaceResponses :
                       Step(c, pwd,
                            [path EXCEPT ![WORKSPACES] = Slot(Scope("workspaces", None), raw)],
                            <<req>>, "", "True")
        ELSE IF pwd_len = PROJECTS
        THEN FetchProjects(c, pwd, path, <<>>, Pwd(WORKSPACES).id, done)
        ELSE IF pwd_len = TASKS
        THEN IF Pwd(PROJECTS) = ME
             THEN FetchTasks(c, pwd, path, <<>>, None, Pwd(WORKSPACES).id, done)
             ELSE FetchTasks(c, pwd, path, <<>>, Pwd(PROJECTS).id, None, done)
        ELSE FetchTask(c, pwd, path, <<>>, path[TASK].val.id)

CommandLs ==
    /\ pc = "prompt"
    /\ Ls(Cmd("ls", <<>>, NoEditor))

(************************* Shell.command_done ******************************)
\* Done without line 288: the answer of the PUT is cached as it came, and it
\* came without stories.
Done_DropsStories(c) ==
    IF Len(pwd) # TASK
    THEN Step(c, pwd, path, <<>>, "must be on a task", "False")
    ELSE LET task == path[TASK].val
             put_data == ~task.completed
             put == Request("put", "task", task.id, <<put_data>>)
             answer == TaskPayload(task.id, put_data)
         IN  \/ Step(c, pwd, path, <<put>>, "", "raise")
             \/ Step(c, pwd,
                      [path EXCEPT ![TASK].val = Task(answer, <<>>)],
                      <<put>>, "", "True")

\* Done without the test of the depth, acting on whatever slot 3 holds.
Done_NoGuard(c) ==
    IF IsNone(path[TASK])
    THEN Step(c, pwd, path, <<>>, "", "raise")
    ELSE LET task == path[TASK].val
             stories == task.stories
             put_data == ~task.completed
             put == Request("put", "task", task.id, <<put_data>>)
             answer == TaskPayload(task.id, put_data)
         IN  \/ Step(c, pwd, path, <<put>>, "", "raise")
             \/ Step(c, pwd,
                      [path EXCEPT ![TASK].val = Task(answer, stories)],
                      <<put>>, "", "True")

\* The PUT answers with the task as updated, without its stories; the
\* handler puts the cached story list back on it.
Done(c) ==
    IF Len(pwd) # TASK
    THEN Step(c, pwd, path, <<>>, "must be on a task", "False")
    ELSE LET task == path[TASK].val
             stories == task.stories
             put_data == ~task.completed
             put == Request("put", "task", task.id, <<put_data>>)
             answer == TaskPayload(task.id, put_data)
         IN  \/ Step(c, pwd, path, <<put>>, "", "raise")
             \/ Step(c, pwd,
                      [path EXCEPT ![TASK].val = Task(answer, stories)],
                      <<put>>, "", "True")

CommandDone ==
    /\ pc = "prompt"
    /\ Done(Cmd("done", <<>>, NoEditor))

(************************ Shell.command_comment ****************************)
\* f.read() without .strip().
Strip_Missing(text) == text

\* str.strip(): the text without its leading and trailing whitespace.
RECURSIVE Strip(_)
Strip(text) ==
    IF text = <<>> THEN <<>>
    ELSE IF Head(text) = " " THEN Strip(Tail(text))
    ELSE IF text[Len(text)] = " " THEN Strip(SubSeq(text, 1, Len(text) - 1))
    ELSE text

\* Comment putting the new story first in the list (insert(0, ...) instead of
\* append).
Comment_Prepends(c) ==
    LET comment == Strip(c.editor.text)
        task == path[TASK].val
        post == Request("post", "stories", task.id, <<comment>>)
        story == [type |-> "comment", text |-> comment]
    IN  IF ~c.editor.ok
        THEN Step(c, pwd, path, <<>>, "", "raise")
        ELSE IF comment = <<>>
        THEN Step(c, pwd, path, <<>>, "ignoring empty comment", "False")
        ELSE IF IsNone(path[TASK])
        THEN Step(c, pwd, path, <<>>, "", "raise")
        ELSE \/ Step(c, pwd, path, <<post>>, "", "raise")
             \/ /\ Len(task.stories) < MaxStories
                /\ Step(c, pwd,
                        [path EXCEPT ![TASK].val.stories = <<story>> \o task.stories],
                        <<post>>, "", "True")

\* The editor is spawned whatever the depth (a missing EDITOR or editor
\* raises); an empty comment is ignored; otherwise the story is posted for
\* the task in path[TASK] and appended to its story list.
Comment(c) ==
    LET comment == Strip(c.editor.text)
        task == path[TASK].val
        post == Request("post", "stories", task.id, <<comment>>)
        story == [type |-> "comment", text |-> comment]
    IN  IF ~c.editor.ok
        THEN Step(c, pwd, path, <<>>, "", "raise")
        ELSE IF comment = <<>>
        THEN Step(c, pwd, path, <<>>, "ignoring empty comment", "False")
        ELSE IF IsNone(path[TASK])
        THEN Step(c, pwd, path, <<>>, "", "raise")      \* TypeError: None['id']
        ELSE \/ Step(c, pwd, path, <<post>>, "", "raise")
             \/ /\ Len(task.stories) < MaxStories
                /\ Step(c, pwd,
                        [path EXCEPT ![TASK].val.stories = Append(task.stories, story)],
                        <<post>>, "", "True")

CommandComment ==
    /\ pc = "prompt"
    /\ \E editor \in [ok : {TRUE}, text : Texts] \cup {[ok |-> FALSE, text |-> <<>>]} :
          Comment(Cmd("comment", <<>>, editor))

(***************************** Shell.prompt ********************************)
\* Any other first word.
Unrecognized ==
    /\ pc = "prompt"
    /\ Step(Cmd("help", <<>>, NoEditor), pwd, path, <<>>, "unrecognized command", "False")

\* input() raises EOFError, which Shell.run catches: the process ends.
EndOfInput ==
    /\ pc = "prompt"
    /\ pc' = "exited"
    /\ cmd' = Cmd("EOF", <<>>, NoEditor)
    /\ calls' = <<>>
    /\ msg' = ""
    /\ ret' = "raise"
    /\ UNCHANGED <<pwd, path, api>>

(******************************* __main__ **********************************)
\* The numbers of a deep link, url[22:].split('/') through int().
DeepLinks == UNION {[1..n -> 0..2] : n \in 1..3}

\* The loop over path[TASKS]: the task whose id is the third number is
\* pushed and its detail fetched.  path[2] raises IndexError on a shorter
\* link as soon as there is a task to compare.  Then shell.run().
PreTask(url, p, pa, is) ==
    LET ts == pa[TASKS].val
        i == IF Len(url) >= 3 THEN IndexOfId(ts, url[3]) ELSE 0
    IN  IF ts # <<>> /\ Len(url) < 3
        THEN Step(NoCmd, p, pa, is, "", "raise")
        ELSE IF i = 0
        THEN Step(NoCmd, p, pa, is, "", "True")
        ELSE FetchTask(NoCmd, Append(p, ts[i]), pa, is, ts[i].id)

\* The loop over path[PROJECTS]: the project whose id is the second number
\* is pushed and its tasks fetched.  With no such project path[TASKS] is
\* still None and the loop over it raises TypeError.
PreProject(url, p, pa, is) ==
    LET ps == pa[PROJECTS].val
        i == IF Len(url) >= 2 THEN IndexOfId(ps, url[2]) ELSE 0
    IN  IF ps # <<>> /\ Len(url) < 2
        THEN Step(NoCmd, p, pa, is, "", "raise")
        ELSE IF i = 0
        THEN Step(NoCmd, p, pa, is, "", "raise")
        ELSE FetchTasks(NoCmd, Append(p, ps[i]), pa, is, ps[i].id, None,
                        LAMBDA p2, pa2, is2 : PreTask(url, p2, pa2, is2))

\* The first number indexes the workspace listing (IndexError past its end);
\* that workspace is pushed and its projects fetched.
PreNavigate(url) ==
    LET ws == path[WORKSPACES].val
    IN  IF url[1] >= Len(ws)
        THEN Step(NoCmd, pwd, path, <<>>, "", "raise")
        ELSE FetchProjects(NoCmd, <<ws[url[1] + 1]>>, path, <<>>, ws[url[1] + 1].id,
                           LAMBDA p, pa, is : PreProject(url, p, pa, is))

\* From the constructed Shell to the first prompt: no argument, an argument
\* int() rejects (ValueError), or a deep link.
Main ==
    /\ pc = "main"
    /\ \/ Step(NoCmd, pwd, path, <<>>, "", "True")
       \/ Step(NoCmd, pwd, path, <<>>, "", "raise")
       \/ \E url \in DeepLinks : PreNavigate(url)

Next ==
    \/ Main
    \/ CommandCl
    \/ CommandLs
    \/ CommandDone
    \/ CommandComment
    \/ Unrecognized
    \/ EndOfInput

Spec == Init /\ [][Next]_vars

(************************* API.tasks on its own ****************************)
\* An id argument: None or an id.
OptionalIds == {None, 1, 2}

\* assignee_status as the service sends it; "other" is none of the four the
\* code names.
Statuses == {"inbox", "today", "upcoming", "later", "other"}

\* Task payloads: the task at position i has id i.
TaskInputs ==
    UNION {{[i \in 1..n |-> [id |-> i, name |-> "a", completed |-> k[i][1],
                             assignee_status |-> k[i][2]]] :
                k \in [1..n -> BOOLEAN \X Statuses]} : n \in 0..MaxTasks}

\* The call of API.tasks on the arguments and the payload api holds:
\* ValueError before any request, or the request, which raises or answers
\* with the payload.
ApiTasks ==
    /\ pc = "api"
    /\ api.outcome = ""
    /\ LET r == TasksRequest(api.project_id, api.workspace_id)
       IN  IF r.raises
           THEN api' = [api EXCEPT !.outcome = "ValueError"]
           ELSE \/ api' = [api EXCEPT !.calls = <<r.req>>, !.outcome = "Exception"]
                \/ api' = [api EXCEPT !.calls = <<r.req>>, !.outcome = "return",
                                      !.result = Tasks(api.project_id, api.workspace_id,
                                                       api.raw)]
    /\ UNCHANGED <<pc, pwd, path, cmd, calls, msg, ret>>

\* Any arguments and any payload, the call not yet made.
InitTasks ==
    /\ pc = "api"
    /\ pwd = <<>>
    /\ path = [d \in 0..3 |-> IF d = TASK THEN NoneTask ELSE NoneList]
    /\ cmd = NoCmd
    /\ calls = <<>>
    /\ msg = ""
    /\ ret = "True"
    /\ api \in {ApiCall(project_id, workspace_id, raw, <<>>, "", <<>>) :
                    project_id \in OptionalIds, workspace_id \in OptionalIds,
                    raw \in TaskInputs}

NextTasks == ApiTasks

SpecTasks == InitTasks /\ [][NextTasks]_vars

(************************ API.projects on its own **************************)
\* The longest project payload drawn.
MaxProjects == 3

\* modified_at as the service sends it, as the rank of the timestamp.
ModifiedAts == 1..3

\* Project payloads: the project at position i has id i; the service may
\* send archived entries, and entries modified at the same time.
ProjectInputs ==
    UNION {{[i \in 1..n |-> [id |-> i, name |-> "a", archived |-> k[i][1],
                             modified_at |-> k[i][2]]] :
                k \in [1..n -> BOOLEAN \X ModifiedAts]} : n \in 0..MaxProjects}

\* The call of API.projects on the workspace id and the payload api holds:
\* the request (with archived=false), which raises or answers with the
\* payload, sorted.
ApiProjects ==
    /\ pc = "api_projects"
    /\ api.outcome = ""
    /\ LET req == Req("get", "projects", api.workspace_id)
       IN  \/ api' = [api EXCEPT !.calls = <<req>>, !.outcome = "Exception"]
           \/ api' = [api EXCEPT !.calls = <<req>>, !.outcome = "return",
                                 !.result = Projects(api.raw)]
    /\ UNCHANGED <<pc, pwd, path, cmd, calls, msg, ret>>

\* Any workspace id and any payload, the call not yet made.
InitProjects ==
    /\ pc = "api_projects"
    /\ pwd = <<>>
    /\ path = [d \in 0..3 |-> IF d = TASK THEN NoneTask ELSE NoneList]
    /\ cmd = NoCmd
    /\ calls = <<>>
    /\ msg = ""
    /\ ret = "True"
    /\ api \in {ApiCall(None, workspace_id, raw, <<>>, "", <<>>) :
                    workspace_id \in {1, 2}, raw \in ProjectInputs}

NextProjects == ApiProjects

SpecProjects == InitProjects /\ [][NextProjects]_vars

(******************************* claims ************************************)
\* The line c is `cl <name>` for a name that is not '..', not 'me' at depth 1,
\* and is the display name of no entry of the cache of the current depth
\* (depth 0, 1 or 2).  Read in the state the line is read in.
NoSuchName(c) ==
    /\ c.name = "cl"
    /\ c.arg # <<>>
    /\ c.arg[1] # ".."
    /\ Len(pwd) \in {WORKSPACES, PROJECTS, TASKS}
    /\ ~(Len(pwd) = PROJECTS /\ c.arg[1] = "me")
    /\ \A i \in 1..Len(path[Len(pwd)].val) : path[Len(pwd)].val[i].name # c.arg[1]

\* C1: at depth 0, 1 and 2, `cl <name>` for a name (not '..', not 'me' at
\* depth 1) that matches no entry of the cache of the current depth leaves
\* pwd and all four cache slots as they were and issues no remote call.
C1_FailedNavigationLeavesState ==
    [][(pc = "prompt" /\ NoSuchName(cmd'))
        => (pwd' = pwd /\ path' = path /\ calls' = <<>>)]_vars

\* C1 happens: `cl b` was run at depth 1 on a project listing that is not
\* empty and has no "b".
C1_Witness ==
    /\ pc = "prompt"
    /\ cmd = Cmd("cl", <<"b">>, NoEditor)
    /\ Len(pwd) = PROJECTS
    /\ path[PROJECTS].val # <<>>
    /\ NoSuchName(cmd)
    /\ calls = <<>>

\* C2: when a remote call made for a command (cl, ls, done, comment) fails,
\* pwd and every cache slot after the command equal those before it.
C2_RemoteFailureLeavesState ==
    [][(/\ pc = "prompt"
        /\ cmd'.name \in {"cl", "ls", "done", "comment"}
        /\ ret' = "raise"
        /\ calls' # <<>>)
        => (pwd' = pwd /\ path' = path)]_vars

\* The loop of Shell.run has been entered (startup did not fail).
InLoop == pc = "prompt" \/ cmd # NoCmd

\* pwd has 0 to 3 entries; slot 0 holds a workspace listing; for every depth
\* d from 1 to the length of pwd, slot d holds the result of a request scoped
\* to the entity selected at depth d-1 (the projects of the selected
\* workspace; the tasks of the selected project, or of the selected workspace
\* under 'me'; the detail of the selected task).
PathCacheConsistent ==
    /\ Len(pwd) \in 0..3
    /\ path[WORKSPACES].scope = Scope("workspaces", None)
    /\ Len(pwd) >= 1 => path[PROJECTS].scope = Scope("projects", Pwd(WORKSPACES).id)
    /\ Len(pwd) >= 2 =>
          path[TASKS].scope = IF Pwd(PROJECTS) = ME
                              THEN Scope("my_tasks", Pwd(WORKSPACES).id)
                              ELSE Scope("project_tasks", Pwd(PROJECTS).id)
    /\ Len(pwd) >= 3 => path[TASK].scope = Scope("task", Pwd(TASKS).id)

\* C3: in every state the loop reaches by any commands, failing remote calls
\* included, pwd and the cache slots are consistent.
C3_PathCacheConsistent == InLoop => PathCacheConsistent

\* C4: `cl ..` at depth 0 does not pop and does not crash: the state stays at
\* depth 0 with the caches unchanged and the loop goes on.
C4_ParentAtRootIsGuarded ==
    [][(pc = "prompt" /\ pwd = <<>> /\ cmd' = Cmd("cl", <<"..">>, NoEditor))
        => (pc' = "prompt" /\ pwd' = <<>> /\ path' = path)]_vars

\* C5: once the loop runs, no failure of a command ends it: the process
\* stops only by reading the end of the input.
C5_OnlyEndOfInputEndsLoop ==
    (pc \in {"crashed", "exited"} /\ cmd # NoCmd) => (pc = "exited" /\ cmd.name = "EOF")

\* The line c is `cl <name>` for a name other than '..'.
ClName(c) == c.name = "cl" /\ c.arg # <<>> /\ c.arg[1] # ".."

\* The last command was a `cl <name>` that entered the entity: it fetched
\* and returned True.
JustPushed == pc = "prompt" /\ ClName(cmd) /\ ret = "True" /\ calls # <<>>

\* C6: a successful `cl <name>` at depth d in 0..2 immediately followed by
\* `cl ..` is back at depth d with the same selected entities and the slots
\* 0..d unchanged, and the `cl ..` issues no remote call.  Checked as its two
\* steps: entering appends one entity and leaves the slots 0..d alone; the
\* `cl ..` right after it removes that entity and changes no slot.
C6_NavigationRoundTrip ==
    /\ [][(pc = "prompt" /\ ClName(cmd') /\ ret' = "True" /\ calls' # <<>>)
            => (/\ Len(pwd) \in 0..2
                /\ Len(pwd') = Len(pwd) + 1
                /\ SubSeq(pwd', 1, Len(pwd)) = pwd
                /\ \A d \in 0..Len(pwd) : path'[d] = path[d])]_vars
    /\ [][(JustPushed /\ cmd' = Cmd("cl", <<"..">>, NoEditor))
            => (/\ pwd' = SubSeq(pwd, 1, Len(pwd) - 1)
                /\ path' = path
                /\ calls' = <<>>)]_vars

\* C6 happens: `cl ..` has led back to depth 1, where the task slot still
\* holds the listing that `cl me` fetched from there (a deep link enters no
\* 'me' scope, so the scope was entered by a command).
C6_Witness ==
    /\ pc = "prompt"
    /\ cmd = Cmd("cl", <<"..">>, NoEditor)
    /\ calls = <<>>
    /\ Len(pwd) = PROJECTS
    /\ path[TASKS].scope = Scope("my_tasks", Pwd(WORKSPACES).id)

\* C7 with '..' among the names: at depth 3, `cl <name>` for any argument
\* changes neither pwd nor a cache slot and issues no remote call.
C7_TerminalDepthAnyName ==
    [][(pc = "prompt" /\ Len(pwd) = TASK /\ cmd'.name = "cl" /\ cmd'.arg # <<>>)
        => (pwd' = pwd /\ path' = path /\ calls' = <<>>)]_vars

\* C7: at depth 3, `cl <name>` for any name other than '..' changes
\* neither pwd nor a cache slot and issues no remote call.
C7_TerminalDepthGuard ==
    [][(pc = "prompt" /\ Len(pwd) = TASK /\ ClName(cmd'))
        => (pwd' = pwd /\ path' = path /\ calls' = <<>>)]_vars

\* C7 happens: `cl a` was run at depth 3.
C7_Witness ==
    /\ pc = "prompt"
    /\ Len(pwd) = TASK
    /\ cmd = Cmd("cl", <<"a">>, NoEditor)
    /\ ret = "False"
    /\ calls = <<>>

\* C8: at depth 3, `done` sends the negation of the cached completed flag in
\* one PUT for the cached task and leaves pwd alone; when the PUT succeeds the
\* cached detail has the toggled flag and the story list it had before.
C8_DonePreservesStories ==
    [][(pc = "prompt" /\ Len(pwd) = TASK /\ cmd'.name = "done")
        => (/\ calls' = <<Request("put", "task", path[TASK].val.id,
                                   <<~path[TASK].val.completed>>)>>
            /\ pwd' = pwd
            /\ ret' = "True" =>
                  /\ path'[TASK].val.completed = ~path[TASK].val.completed
                  /\ path'[TASK].val.stories = path[TASK].val.stories
                  /\ \A d \in 0..2 : path'[d] = path[d])]_vars

\* C8 happens: `done` has completed a task that holds two different stories.
C8_Witness ==
    /\ pc = "prompt"
    /\ Len(pwd) = TASK
    /\ cmd.name = "done"
    /\ ret = "True"
    /\ path[TASK].val.completed
    /\ Len(path[TASK].val.stories) = 2
    /\ path[TASK].val.stories[1] # path[TASK].val.stories[2]

\* The text is empty or holds whitespace only.
IsBlank(text) == \A i \in 1..Len(text) : text[i] = " "

\* C9: when the text the editor leaves is empty or whitespace only, `comment`
\* issues no create-story call, leaves pwd and every cache slot unchanged and
\* prints a message.
C9_EmptyCommentIsNoOp ==
    [][(pc = "prompt" /\ cmd'.name = "comment" /\ cmd'.editor.ok
            /\ IsBlank(cmd'.editor.text))
        => (/\ calls' = <<>>
            /\ pwd' = pwd
            /\ path' = path
            /\ msg' = "ignoring empty comment"
            /\ pc' = "prompt")]_vars

\* C9 happens: at depth 3, on a task with a story, the editor left one space.
C9_Witness ==
    /\ pc = "prompt"
    /\ Len(pwd) = TASK
    /\ cmd.name = "comment"
    /\ cmd.editor.text = <<" ">>
    /\ path[TASK].val.stories # <<>>
    /\ msg = "ignoring empty comment"

\* C10: API.tasks called with both project_id and workspace_id, or with
\* neither, raises the argument error and issues no request; it returns a
\* listing only when exactly one of the two is given.
C10_ScopingExclusivity ==
    LET one == (api.project_id # None) # (api.workspace_id # None)
    IN  api.outcome # "" =>
          /\ ~one => (api.outcome = "ValueError" /\ api.calls = <<>>)
          /\ api.outcome = "return" => one

\* A call of API.tasks has returned its listing.
Returned == pc = "api" /\ api.outcome = "return"

\* The place of a task in the 'me' view: completed tasks, then the incomplete
\* ones by assignee_status; 0 for an incomplete task of no such status.
BucketRank(t) ==
    IF t.completed THEN 1
    ELSE CASE t.assignee_status = "inbox" -> 2
           [] t.assignee_status = "today" -> 3
           [] t.assignee_status = "upcoming" -> 4
           [] t.assignee_status = "later" -> 5
           [] OTHER -> 0

\* C11: for every payload of the workspace-scoped ('me') request, the result
\* is the completed tasks, then the incomplete tasks of status inbox, today,
\* upcoming, later, each group in payload order; a completed task is in the
\* first group whatever its status, and an incomplete task of none of the
\* four statuses is absent.  (The task at position i of the payload has id i.)
C11_AggregateBucketOrdering ==
    (Returned /\ api.project_id = None) =>
        LET raw == api.raw
            result == api.result
        IN  /\ \A i \in 1..Len(result) :
                  result[i].id \in 1..Len(raw) /\ result[i] = raw[result[i].id]
            /\ \A k \in 1..Len(raw) :
                  Cardinality({i \in 1..Len(result) : result[i].id = k})
                      = IF BucketRank(raw[k]) = 0 THEN 0 ELSE 1
            /\ \A i, j \in 1..Len(result) :
                  i < j => \/ BucketRank(result[i]) < BucketRank(result[j])
                           \/ /\ BucketRank(result[i]) = BucketRank(result[j])
                              /\ result[i].id < result[j].id

\* C11 happens: of three tasks the last, completed with status "later", comes
\* first, the incomplete "today" task follows, and the task of another status
\* is gone.
C11_Witness ==
    /\ Returned
    /\ api.project_id = None
    /\ Len(api.raw) = 3
    /\ ~api.raw[1].completed /\ api.raw[1].assignee_status = "other"
    /\ ~api.raw[2].completed /\ api.raw[2].assignee_status = "today"
    /\ api.raw[3].completed /\ api.raw[3].assignee_status = "later"
    /\ Len(api.result) = 2
    /\ api.result[1].id = 3
    /\ api.result[2].id = 2

\* C19: for every payload of a project's tasks, the result is a permutation
\* of the payload with the completed tasks before the incomplete ones, each
\* of the two groups in payload order.  (The task at position i has id i.)
C19_ProjectTaskOrdering ==
    (Returned /\ api.project_id # None) =>
        LET raw == api.raw
            result == api.result
        IN  /\ Len(result) = Len(raw)
            /\ \A i \in 1..Len(result) :
                  result[i].id \in 1..Len(raw) /\ result[i] = raw[result[i].id]
            /\ \A k \in 1..Len(raw) : \E i \in 1..Len(result) : result[i].id = k
            /\ \A i, j \in 1..Len(result) :
                  i < j => \/ result[i].completed /\ ~result[j].completed
                           \/ /\ result[i].completed = result[j].completed
                              /\ result[i].id < result[j].id

\* C19 happens: the completed third task is first, the two incomplete ones
\* follow in payload order.
C19_Witness ==
    /\ Returned
    /\ api.project_id # None
    /\ Len(api.raw) = 3
    /\ ~api.raw[1].completed /\ ~api.raw[2].completed /\ api.raw[3].completed
    /\ api.result[1].id = 3
    /\ api.result[2].id = 1
    /\ api.result[3].id = 2

\* A call of API.projects has returned its listing.
ProjectsReturned == pc = "api_projects" /\ api.outcome = "return"

\* The listing is ordered by modified_at, newest first.
NewestFirst(result) ==
    \A i, j \in 1..Len(result) : i < j => result[i].modified_at >= result[j].modified_at

\* C12: for any project listing returned by the service, the result of
\* API.projects contains no archived entry, contains every non-archived entry
\* of the listing, and is sorted by modified_at descending.
C12_ArchivedFilteredOut ==
    ProjectsReturned =>
        /\ \A i \in 1..Len(api.result) : ~api.result[i].archived
        /\ \A k \in 1..Len(api.raw) :
              ~api.raw[k].archived => \E i \in 1..Len(api.result) : api.result[i] = api.raw[k]
        /\ NewestFirst(api.result)

\* C12, amended: API.projects issues the one request GET
\* workspaces/<id>/projects?archived=false and returns exactly the entries of
\* the answer, archived ones included, sorted by modified_at descending,
\* entries of equal modified_at in the order of the answer.  (The project at
\* position i of the answer has id i.)
C12_ProjectsSortedNotFiltered ==
    ProjectsReturned =>
        LET raw == api.raw
            result == api.result
        IN  /\ api.calls = <<Req("get", "projects", api.workspace_id)>>
            /\ Len(result) = Len(raw)
            /\ \A i \in 1..Len(result) :
                  result[i].id \in 1..Len(raw) /\ result[i] = raw[result[i].id]
            /\ \A k \in 1..Len(raw) : \E i \in 1..Len(result) : result[i].id = k
            /\ \A i, j \in 1..Len(result) :
                  i < j => \/ result[i].modified_at > result[j].modified_at
                           \/ /\ result[i].modified_at = result[j].modified_at
                              /\ result[i].id < result[j].id

\* C12 happens: the answer holds an archived entry, the newest, between two
\* entries that are not archived; it is first in the result.
C12_Witness ==
    /\ ProjectsReturned
    /\ Len(api.raw) = 3
    /\ ~api.raw[1].archived /\ api.raw[1].modified_at = 1
    /\ api.raw[2].archived /\ api.raw[2].modified_at = 3
    /\ ~api.raw[3].archived /\ api.raw[3].modified_at = 2
    /\ api.result[1].id = 2 /\ api.result[1].archived
    /\ api.result[2].id = 3
    /\ api.result[3].id = 1

\* The line c is `comment` and the editor came back with a text that is not
\* blank.
TextComment(c) == c.name = "comment" /\ c.editor.ok /\ ~IsBlank(c.editor.text)

\* C13: `comment` issues the create-story call only at depth 3 and only for
\* the task selected at depth 2; at depth 0, 1 or 2, also after `cl ..` out of
\* a task whose detail is still in slot 3, `comment` with a text that is not
\* blank issues no call and changes nothing.
C13_CommentOnlyOnTask ==
    [][(pc = "prompt" /\ TextComment(cmd'))
        => IF Len(pwd) = TASK
           THEN \A i \in 1..Len(calls') : calls'[i].id = Pwd(TASKS).id
           ELSE calls' = <<>> /\ pwd' = pwd /\ path' = path]_vars

\* C16: at depth 3, `comment` with a text that is not blank issues exactly
\* one create-story call, for the cached task and with the text trimmed; when
\* the call succeeds the story list is the previous one with the returned
\* story appended last, one longer, and depth, path entities and the other
\* slots are unchanged.
C16_CommentAppendsStory ==
    [][(pc = "prompt" /\ Len(pwd) = TASK /\ TextComment(cmd'))
        => LET old == path[TASK].val.stories
               new == path'[TASK].val.stories
           IN  /\ Len(calls') = 1
               /\ calls'[1].verb = "post" /\ calls'[1].op = "stories"
               /\ calls'[1].id = path[TASK].val.id
               /\ LET text == calls'[1].data[1]
                  IN  text # <<>> /\ text[1] # " " /\ text[Len(text)] # " "
               /\ pwd' = pwd
               /\ ret' = "True" =>
                    /\ Len(new) = Len(old) + 1
                    /\ SubSeq(new, 1, Len(old)) = old
                    /\ new[Len(new)] = [type |-> "comment", text |-> calls'[1].data[1]]
                    /\ path' = [path EXCEPT ![TASK].val.stories = new]
               /\ ret' # "True" => path' = path]_vars

\* C16 happens: on a task that had a story, `comment` with a text written
\* between blanks has succeeded and the trimmed text is the last story.
C16_Witness ==
    /\ pc = "prompt"
    /\ Len(pwd) = TASK
    /\ cmd.name = "comment" /\ cmd.editor.text = <<" ", "x", " ">>
    /\ ret = "True"
    /\ calls = <<Request("post", "stories", Pwd(TASKS).id, <<<<"x">>>>)>>
    /\ Len(path[TASK].val.stories) = 2
    /\ path[TASK].val.stories[1].type # "comment"
    /\ path[TASK].val.stories[2] = [type |-> "comment", text |-> <<"x">>]

\* What the listing or detail of depth d is fetched for, by the entities of
\* pwd.
ScopeOfDepth(d) ==
    CASE d = WORKSPACES -> Scope("workspaces", None)
      [] d = PROJECTS -> Scope("projects", Pwd(WORKSPACES).id)
      [] d = TASKS -> IF Pwd(PROJECTS) = ME
                      THEN Scope("my_tasks", Pwd(WORKSPACES).id)
                      ELSE Scope("project_tasks", Pwd(PROJECTS).id)
      [] d = TASK -> Scope("task", Pwd(TASKS).id)

\* C14: `ls` at depth d requests the listing or detail of depth d scoped by
\* the current path (at depth 2 the selected project, or the workspace under
\* 'me'), puts the answer in slot d, and leaves pwd and every other slot as
\* they were; when the request fails no slot changes.
C14_LsRefreshesCurrentDepthOnly ==
    [][(pc = "prompt" /\ cmd'.name = "ls")
        => LET d == Len(pwd)
               scope == ScopeOfDepth(d)
           IN  /\ pwd' = pwd
               /\ \A k \in 0..3 : k # d => path'[k] = path[k]
               /\ calls' # <<>>
               /\ calls'[1] = Req("get", scope.op, scope.id)
               /\ ret' = "True" => path'[d].scope = scope
               /\ ret' # "True" => path' = path]_vars

\* C14 happens: under 'me', with the detail of a task visited before still
\* in slot 3, `ls` has fetched the tasks of the workspace.
C14_Witness ==
    /\ pc = "prompt"
    /\ cmd.name = "ls"
    /\ ret = "True"
    /\ Len(pwd) = TASKS
    /\ Pwd(PROJECTS) = ME
    /\ calls = <<Req("get", "my_tasks", Pwd(WORKSPACES).id)>>
    /\ path[TASKS].scope = Scope("my_tasks", Pwd(WORKSPACES).id)
    /\ ~IsNone(path[TASK])

\* C15: at depth 0, 1 and 2 a `cl <name>` whose name matches no entry of the
\* current listing prints a "not found" message, at depth 1 as well, and is
\* handled as a command that changed nothing: the view is not displayed
\* again.
C15_FailedNavigationReported ==
    [][(pc = "prompt" /\ NoSuchName(cmd'))
        => (msg' # "" /\ ret' = "False")]_vars

\* The line c is `cl <name>` at depth 0, 1 or 2 for a name that selects
\* something: 'me' at depth 1, or the display name of an entry of the listing
\* of the current depth.
SomeName(c) ==
    /\ ClName(c)
    /\ Len(pwd) \in {WORKSPACES, PROJECTS, TASKS}
    /\ \/ Len(pwd) = PROJECTS /\ c.arg[1] = "me"
       \/ \E i \in 1..Len(path[Len(pwd)].val) : path[Len(pwd)].val[i].name = c.arg[1]

\* C17: `cl <name>` pushes the first entry, in the order of the cached
\* listing, whose display name is the name; at depth 1 the name "me" pushes
\* the aggregate scope, whose tasks are requested by workspace id, also when
\* a project named "me" is listed.
C17_FirstMatchWins ==
    [][(pc = "prompt" /\ SomeName(cmd'))
        => LET d == Len(pwd)
               listing == path[d].val
               name == cmd'.arg[1]
           IN  /\ Len(pwd') = d + 1
               /\ SubSeq(pwd', 1, d) = pwd
               /\ calls' # <<>>
               /\ IF d = PROJECTS /\ name = "me"
                  THEN /\ pwd'[d + 1] = ME
                       /\ calls'[1] = Req("get", "my_tasks", Pwd(WORKSPACES).id)
                  ELSE \E i \in 1..Len(listing) :
                          /\ listing[i].name = name
                          /\ \A j \in 1..(i - 1) : listing[j].name # name
                          /\ pwd'[d + 1] = listing[i]
                          /\ calls'[1].id = listing[i].id]_vars

\* C17 happens: `cl a` has entered the first of two tasks named "a", under
\* the aggregate scope 'me' entered while a project named "me" was listed.
C17_Witness ==
    /\ pc = "prompt"
    /\ cmd = Cmd("cl", <<"a">>, NoEditor)
    /\ ret = "True"
    /\ Len(pwd) = TASK
    /\ Len(path[TASKS].val) = 2
    /\ path[TASKS].val[1].name = "a" /\ path[TASKS].val[2].name = "a"
    /\ Pwd(TASKS) = path[TASKS].val[1]
    /\ path[TASK].val.id = path[TASKS].val[1].id
    /\ Pwd(PROJECTS) = ME
    /\ path[TASKS].scope = Scope("my_tasks", Pwd(WORKSPACES).id)
    /\ \E i \in 1..Len(path[PROJECTS].val) : path[PROJECTS].val[i].name = "me"

\* C20: `done` at depth 0, 1 or 2 issues no remote call, prints a message and
\* leaves pwd and every cache slot as they were; the loop goes on.
C20_DoneNeedsTask ==
    [][(pc = "prompt" /\ Len(pwd) # TASK /\ cmd'.name = "done")
        => /\ calls' = <<>>
           /\ msg' = "must be on a task"
           /\ pwd' = pwd
           /\ path' = path
           /\ pc' = "prompt"]_vars

\* C20 happens: back at depth 2 with the detail of the task left still in
\* slot 3, `done` was refused.
C20_Witness ==
    /\ pc = "prompt"
    /\ cmd.name = "done"
    /\ Len(pwd) = TASKS
    /\ ~IsNone(path[TASK])
    /\ calls = <<>>
    /\ msg = "must be on a task"

\* The startup raised in a remote call: the slot the call was to fill, the
\* one of the depth reached, is still None.  (An error raised by the deep
\* link itself comes before any call or after the slot was filled.)
StartupRemoteFailure == calls # <<>> /\ IsNone(path[Len(pwd)])

\* C18: started with a deep link that is malformed, out of range or matches
\* no entity, the program does not crash: unless a remote call fails it
\* reaches the prompt; and the first component of the link selects the
\* workspace of that id.
C18_DeepLinkFailsGracefully ==
    [][pc = "main"
        => /\ (pc' = "crashed" /\ ret' = "raise") => StartupRemoteFailure'
           /\ \A url \in DeepLinks :
                 (PreNavigate(url) /\ pwd' # <<>>) => pwd'[1].id = url[1]]_vars

====
